---- MODULE Spec2Model ----
(***************************************************************************)
(* A model of nix-gl-host: the driver scan, the cache.json comparison, the *)
(* rebuild of the cache in a temporary directory, its promotion to the     *)
(* cache root, and the file lock around all of it (nixglhost/main.py,      *)
(* nixglhost/nvidia.py, nixglhost/cli.py).                                 *)
(*                                                                         *)
(* Abstractions.  A string the code only compares is a TLA+ string.  A     *)
(* regular expression of the pattern lists is its literal stem, and        *)
(* re.search(pattern, text) is "the stem occurs in the text" (Stems).  A   *)
(* hash (Python's hash(), sha256) is collision free: it is the tuple of    *)
(* what was hashed.  The text of a JSON file is the JSON value it denotes. *)
(* A directory tree is cut at its top-level entries: a process killed      *)
(* inside rmtree or copytree leaves any of them removed or copied.         *)
(***************************************************************************)
EXTENDS Integers, Sequences, FiniteSets, TLC

\* ------------------------------------------------------------------ bounds
\* Largest modification time and size a host file takes.
MaxMtime == 2
MaxSize == 2

\* --------------------------------------------------------------- constants
CACHE_VERSION == 3

\* ------------------------------------------------------------ pattern lists
NVIDIA_DSO_PATTERNS ==
  { "libGLESv1_CM_nvidia", "libGLESv2_nvidia", "libglxserver_nvidia",
    "libnvcuvid", "libnvidia-allocator", "libnvidia-cfg",
    "libnvidia-compiler", "libnvidia-eglcore", "libnvidia-encode",
    "libnvidia-fbc", "libnvidia-glcore", "libnvidia-glsi",
    "libnvidia-glvkspirv", "libnvidia-gpucomp", "libnvidia-ml",
    "libnvidia-ngx", "libnvidia-nvvm", "libnvidia-opencl",
    "libnvidia-opticalflow", "libnvidia-ptxjitcompiler", "libnvidia-rtcore",
    "libnvidia-tls", "libnvidia-vulkan-producer", "libnvidia-wayland-client",
    "libnvoptix", "libnvtegrahv", "libdrm", "libffi", "libgbm", "libexpat",
    "libxcb-glx", "libX11-xcb", "libX11", "libXext", "libwayland-server",
    "libwayland-client" }

NVIDIA_CUDA_DSO_PATTERNS == { "libcudadebugger", "libcuda" }

NVIDIA_GLX_DSO_PATTERNS == { "libGLX_nvidia" }

NVIDIA_EGL_DSO_PATTERNS ==
  { "libEGL_nvidia", "libnvidia-egl-wayland", "libnvidia-egl-gbm" }

\* The pattern stems that occur, followed by ".so", in a piece of a path.
Stems(text) ==
  CASE text = "libnvidia-glcore.so.1" -> {"libnvidia-glcore"}
    [] text = "libnvidia-tls.so.1" -> {"libnvidia-tls"}
    [] text = "libGLX_nvidia.so.0" -> {"libGLX_nvidia"}
    [] text = "libcuda.so.1" -> {"libcuda"}
    [] text = "libEGL_nvidia.so.0" -> {"libEGL_nvidia"}
    [] text = "/opt/libnvidia-glcore.so.d" -> {"libnvidia-glcore"}
    [] OTHER -> {}

\* os.path.abspath(os.path.join(path, fname)), kept as its two pieces.
AbsFilePath(path, fname) == <<path, fname>>

\* is_dso_matching_pattern: re.search of each pattern in the absolute path.
is_dso_matching_pattern(files_patterns, abs_file_path) ==
  \E pattern \in files_patterns :
     pattern \in (Stems(abs_file_path[1]) \cup Stems(abs_file_path[2]))

\* ------------------------------------------------------------- ResolvedLib
\* ResolvedLib(name, dirpath, fullpath): the constructor stats the file.
ResolvedLib(name, dirpath, fullpath, st) ==
  [ name |-> name, dirpath |-> dirpath, fullpath |-> fullpath,
    last_modification |-> st.mtime, size |-> st.size ]

\* A JSON array where a string is expected: a value hash() raises on.
JsonArray == "[]"

ResolvedLibHashable(l) == l.name # JsonArray

ResolvedLibHash(l) ==
  <<l.name, l.dirpath, l.fullpath, l.last_modification, l.size>>

\* The fields __eq__ compares: two records are equal when these are.
ResolvedLibEqKey(l) ==
  <<l.name, l.fullpath, l.dirpath, l.last_modification, l.size>>

ResolvedLibEq(a, b) == ResolvedLibEqKey(a) = ResolvedLibEqKey(b)

ResolvedLibToDict(l) ==
  [ name |-> l.name, dirpath |-> l.dirpath, fullpath |-> l.fullpath,
    last_modification |-> l.last_modification, size |-> l.size ]

ResolvedLibKeys == {"name", "dirpath", "fullpath", "last_modification", "size"}

\* ResolvedLib.from_dict: a missing key raises KeyError.
ResolvedLibFromDictOk(d) == ResolvedLibKeys \subseteq DOMAIN d

\* from_dict that hands size and last_modification over in the other
\* order.
ResolvedLibFromDictSwapped(d) ==
  [ name |-> d.name, dirpath |-> d.dirpath, fullpath |-> d.fullpath,
    last_modification |-> d.size, size |-> d.last_modification ]

ResolvedLibFromDict(d) ==
  [ name |-> d.name, dirpath |-> d.dirpath, fullpath |-> d.fullpath,
    last_modification |-> d.last_modification, size |-> d.size ]

\* ------------------------------------------------------------- Python sets
\* set(libs): an element is found in a set by its hash first and by __eq__
\* then, so a set is the set of the <<hash, what __eq__ compares>> of its
\* elements, and two sets are equal when these are.
PySetOfLibs(libs) ==
  { <<ResolvedLibHash(libs[i]), ResolvedLibEqKey(libs[i])>> : i \in 1..Len(libs) }

\* ------------------------------------------------------------- LibraryPath
Buckets == {"glx", "cuda", "generic", "egl"}

LibraryPath(glx, cuda, generic, egl, path) ==
  [ glx |-> glx, cuda |-> cuda, generic |-> generic, egl |-> egl, path |-> path ]

HashSeq(libs) == [ i \in 1..Len(libs) |-> ResolvedLibHash(libs[i]) ]

LibraryPathHashable(p) ==
  \A b \in Buckets : \A i \in 1..Len(p[b]) : ResolvedLibHashable(p[b][i])

\* hash of the tuples of the four lists, in the order the lists hold them.
LibraryPathHash(p) ==
  <<HashSeq(p.glx), HashSeq(p.cuda), HashSeq(p.generic), HashSeq(p.egl), p.path>>

\* What LibraryPath.__eq__ compares: the four lists as sets, and the path.
LibraryPathEqKey(p) ==
  <<PySetOfLibs(p.glx), PySetOfLibs(p.cuda), PySetOfLibs(p.generic),
    PySetOfLibs(p.egl), p.path>>

LibraryPathEq(a, b) == LibraryPathEqKey(a) = LibraryPathEqKey(b)

\* set(paths)
PySetOfPaths(paths) ==
  { <<LibraryPathHash(paths[i]), LibraryPathEqKey(paths[i])>> : i \in 1..Len(paths) }

DictSeq(libs) == [ i \in 1..Len(libs) |-> ResolvedLibToDict(libs[i]) ]

LibraryPathToDict(p) ==
  [ glx |-> DictSeq(p.glx), cuda |-> DictSeq(p.cuda),
    generic |-> DictSeq(p.generic), egl |-> DictSeq(p.egl), path |-> p.path ]

LibraryPathKeys == {"glx", "cuda", "generic", "egl", "path"}

LibraryPathFromDictOk(d) ==
  /\ LibraryPathKeys \subseteq DOMAIN d
  /\ \A b \in Buckets : \A i \in 1..Len(d[b]) : ResolvedLibFromDictOk(d[b][i])

LibSeq(dicts) == [ i \in 1..Len(dicts) |-> ResolvedLibFromDict(dicts[i]) ]

LibraryPathFromDict(d) ==
  LibraryPath(LibSeq(d.glx), LibSeq(d.cuda), LibSeq(d.generic), LibSeq(d.egl),
              d.path)

\* --------------------------------------------------------- CacheDirContent
CacheDirContent(paths, version) == [ paths |-> paths, version |-> version ]

\* to_json: the JSON text, as the value it denotes.
ToJson(c) ==
  [ paths |-> [ i \in 1..Len(c.paths) |-> LibraryPathToDict(c.paths[i]) ],
    version |-> c.version ]

\* The content of a file that is no JSON text.
Garbage == [ garbage |-> TRUE ]

\* from_json raises: json.loads fails, or a key is missing.
FromJsonOk(j) ==
  /\ "garbage" \notin DOMAIN j
  /\ {"version", "paths"} \subseteq DOMAIN j
  /\ \A i \in 1..Len(j.paths) : LibraryPathFromDictOk(j.paths[i])

FromJson(j) ==
  CacheDirContent([ i \in 1..Len(j.paths) |-> LibraryPathFromDict(j.paths[i]) ],
                  j.version)

\* The outcome of a call: a value, or an exception that propagates.
Returns(v) == [ exc |-> FALSE, val |-> v ]
Raises == [ exc |-> TRUE, val |-> FALSE ]

\* An equality that compares the versions and the directories only.
CacheDirContentEqPathsOnly(self, o) ==
  Returns(/\ self.version = o.version
          /\ { self.paths[i].path : i \in 1..Len(self.paths) }
               = { o.paths[i].path : i \in 1..Len(o.paths) })

\* CacheDirContent.__eq__: the versions, then set(self.paths) == set(o.paths),
\* which hashes every element of both lists.
CacheDirContentEq(self, o) ==
  IF self.version # o.version THEN Returns(FALSE)
  ELSE IF \E i \in 1..Len(o.paths) : ~ LibraryPathHashable(o.paths[i])
       THEN Raises
       ELSE Returns(PySetOfPaths(self.paths) = PySetOfPaths(o.paths))

\* The content of a file that does not exist.
NoFile == [ nofile |-> TRUE ]

IsFile(content) == "nofile" \notin DOMAIN content

\* is_dso_cache_up_to_date, the try/except around from_json left out.
is_dso_cache_up_to_date_no_try(dsos, cache_file) ==
  IF IsFile(cache_file)
  THEN IF FromJsonOk(cache_file)
       THEN CacheDirContentEq(dsos, FromJson(cache_file))
       ELSE Raises
  ELSE Returns(FALSE)

\* is_dso_cache_up_to_date(dsos, cache_file_path), given the file's content.
is_dso_cache_up_to_date(dsos, cache_file) ==
  IF IsFile(cache_file)
  THEN IF FromJsonOk(cache_file)
       THEN CacheDirContentEq(dsos, FromJson(cache_file))
       ELSE Returns(FALSE)
  ELSE Returns(FALSE)

\* ---------------------------------------------------------------- the scan
\* A directory's listing is a sequence of [name, mtime, size]: the regular
\* files in the order os.listdir returns them.
Select(listing, patterns, path) ==
  SelectSeq(listing,
            LAMBDA f : is_dso_matching_pattern(patterns, AbsFilePath(path, f.name)))

\* resolve_libraries(path, files_patterns), given the directory's listing.
resolve_libraries(path, files_patterns, listing) ==
  LET sel == Select(listing, files_patterns, path)
  IN [ i \in 1..Len(sel) |->
         ResolvedLib(sel[i].name, path, AbsFilePath(path, sel[i].name), sel[i]) ]

\* scan_dsos_from_dir(path): the LibraryPath, as a list of one, or the empty
\* list for None (no file matches a generic pattern).
scan_dsos_from_dir(path, listing) ==
  LET generic == resolve_libraries(path, NVIDIA_DSO_PATTERNS, listing)
  IN IF Len(generic) > 0
     THEN << LibraryPath(resolve_libraries(path, NVIDIA_GLX_DSO_PATTERNS, listing),
                         resolve_libraries(path, NVIDIA_CUDA_DSO_PATTERNS, listing),
                         generic,
                         resolve_libraries(path, NVIDIA_EGL_DSO_PATTERNS, listing),
                         path) >>
     ELSE << >>

\* A digest of the first character of the path only.
Sha256HexOfRoot(path) == <<"sha256", "/">>

\* ------------------------------------------------------ the cache's layout
\* sha256(path).hexdigest()
Sha256Hex(path) == <<"sha256", path>>

\* os.path.join(cache_dir, name): a cache root is <<parent, base name>>.
Join(dir, name) == <<dir, name>>

\* The parent directory every cache root of the model lies in.
CacheHome == "/home/u/.cache"

TmpBaseName == "nix-gl-host"

\* tmp_cache_dir of nvidia_main: nix-gl-host under the directory
\* tempfile.TemporaryDirectory() makes.
TmpCacheDir == Join("/tmp/tmpdir", TmpBaseName)

\* cli: os.path.join(xdg_cache_home, "nix-gl-host")
CliCacheDir == <<CacheHome, "nix-gl-host">>

\* The cache roots nvidia_main is called with.
Roots == { CliCacheDir, <<CacheHome, "gl-cache">> }

\* os.path.split(cache_dir)[0]
SplitHead(cache_dir) == cache_dir[1]

\* The names of the files generate_nvidia_egl_config_files writes.
EglConfs == { "10_nvidia.json", "10_nvidia_wayland.json", "15_nvidia_gbm.json" }

\* A directory tree: whether it exists, cache.json, ld_library_path, the
\* files of egl-confs, and the hashed subdirectories.
AbsentTree ==
  [ exists |-> FALSE, json |-> NoFile, ldp |-> NoFile, egl |-> {}, dirs |-> {} ]

EmptyTree == [ AbsentTree EXCEPT !.exists = TRUE ]

TextFile(text) == [ text |-> text ]

\* The top-level entries of a tree.
Entries(t) ==
  (IF IsFile(t.json) THEN {[kind |-> "cache.json", name |-> <<>>]} ELSE {})
  \cup (IF IsFile(t.ldp) THEN {[kind |-> "ld_library_path", name |-> <<>>]} ELSE {})
  \cup (IF t.egl # {} THEN {[kind |-> "egl-confs", name |-> <<>>]} ELSE {})
  \cup { [kind |-> "dir", name |-> d.name] : d \in t.dirs }

\* The tree without one top-level entry.
Without(t, e) ==
  CASE e.kind = "cache.json" -> [t EXCEPT !.json = NoFile]
    [] e.kind = "ld_library_path" -> [t EXCEPT !.ldp = NoFile]
    [] e.kind = "egl-confs" -> [t EXCEPT !.egl = {}]
    [] OTHER -> [t EXCEPT !.dirs = { d \in t.dirs : d.name # e.name }]

\* The tree dst with the top-level entry e of src copied into it.
WithCopy(dst, src, e) ==
  CASE e.kind = "cache.json" -> [dst EXCEPT !.json = src.json]
    [] e.kind = "ld_library_path" -> [dst EXCEPT !.ldp = src.ldp]
    [] e.kind = "egl-confs" -> [dst EXCEPT !.egl = src.egl]
    [] OTHER -> [dst EXCEPT !.dirs = @ \cup { d \in src.dirs : d.name = e.name }]

BaseNames(libs) == { libs[i].fullpath[2] : i \in 1..Len(libs) }

\* The runpath patchelf sets on the copies of a non-empty bucket.
RpathOf(libs, rpath) == IF Len(libs) > 0 THEN {rpath} ELSE {}

\* cache_library_path(library_path, temp_cache_dir_root, final_cache_dir_root):
\* the temporary tree with the hashed directory of library_path made in it,
\* the four category directories holding the patched copies.
cache_library_path(library_path, tmp, temp_cache_dir_root, final_cache_dir_root) ==
  LET path_hash == Sha256Hex(library_path.path)
      rpath_lib_dir == Join(Join(final_cache_dir_root, path_hash), "lib")
      made == [ name |-> path_hash,
                lib |-> BaseNames(library_path.generic),
                cuda |-> BaseNames(library_path.cuda),
                egl |-> BaseNames(library_path.egl),
                glx |-> BaseNames(library_path.glx),
                rpath |-> UNION { RpathOf(library_path[b], rpath_lib_dir) : b \in Buckets } ]
  IN [tmp EXCEPT !.dirs = { d \in @ : d.name # path_hash } \cup {made}]

\* The category directory of a bucket under a hashed directory.
CategoryDir(b) == IF b = "generic" THEN "lib" ELSE b

\* The buckets in the order cache_library_path handles them.
BucketOrder == << "generic", "cuda", "egl", "glx" >>

\* copy_and_patch_libs that patches the libraries where they are.
copy_and_patch_libs_in_place(dsos, dest_dir, rpath) ==
  [ rpath |-> rpath,
    dsoPaths |-> [ i \in 1..Len(dsos) |-> dsos[i].fullpath ] ]

\* copy_and_patch_libs(dsos, dest_dir, rpath): the invocation of patchelf
\* it ends with, "--set-rpath rpath" followed by the paths of the copies
\* made in dest_dir (every caller gives rpath).
copy_and_patch_libs(dsos, dest_dir, rpath) ==
  [ rpath |-> rpath,
    dsoPaths |-> [ i \in 1..Len(dsos) |-> Join(dest_dir, dsos[i].fullpath[2]) ] ]

\* cache_library_path whose runpath is the generic directory under the
\* temporary root.
PatchCallsTmpRpath(library_path, temp_cache_dir_root, final_cache_dir_root) ==
  LET path_hash == Sha256Hex(library_path.path)
      cache_path_root == Join(temp_cache_dir_root, path_hash)
      rpath_lib_dir == Join(cache_path_root, "lib")
      todo == SelectSeq(BucketOrder, LAMBDA b : Len(library_path[b]) > 0)
  IN [ k \in 1..Len(todo) |->
         copy_and_patch_libs(library_path[todo[k]],
                             Join(cache_path_root, CategoryDir(todo[k])),
                             rpath_lib_dir) ]

\* The invocations of patchelf cache_library_path makes, in order: one
\* for each bucket with "len(dsos) > 0".
PatchCalls(library_path, temp_cache_dir_root, final_cache_dir_root) ==
  LET path_hash == Sha256Hex(library_path.path)
      cache_path_root == Join(temp_cache_dir_root, path_hash)
      rpath_lib_dir == Join(Join(final_cache_dir_root, path_hash), "lib")
      todo == SelectSeq(BucketOrder, LAMBDA b : Len(library_path[b]) > 0)
  IN [ k \in 1..Len(todo) |->
         copy_and_patch_libs(library_path[todo[k]],
                             Join(cache_path_root, CategoryDir(todo[k])),
                             rpath_lib_dir) ]

RECURSIVE generate_cache_ld_library_path(_)
\* generate_cache_ld_library_path(cache_paths): the colon-joined string, as
\* the list of its entries.
generate_cache_ld_library_path(cache_paths) ==
  IF cache_paths = << >> THEN << >>
  ELSE << Join(Head(cache_paths), "glx"), Join(Head(cache_paths), "cuda"),
          Join(Head(cache_paths), "egl") >>
       \o generate_cache_ld_library_path(Tail(cache_paths))

\* cache_paths of nvidia_main, joined to cache_dir: the hashed directory of
\* each LibraryPath of cache_content, under the final cache root.
CacheAbsolutePaths(cache_dir, paths) ==
  [ i \in 1..Len(paths) |-> Join(cache_dir, Sha256Hex(paths[i].path)) ]

\* generate_cache_metadata that leaves ld_library_path unwritten.
generate_cache_metadata_no_ldp(tmp, cache_content, cache_paths, n) ==
  [ tmp EXCEPT
      !.json = IF n >= 1 THEN ToJson(cache_content) ELSE @,
      !.egl = IF n >= 3 THEN EglConfs ELSE @ ]

\* generate_cache_metadata(cache_dir, cache_content, cache_paths): the tree
\* after the first n of its three writes (cache.json, ld_library_path,
\* egl-confs).
generate_cache_metadata(tmp, cache_content, cache_paths, n) ==
  [ tmp EXCEPT
      !.json = IF n >= 1 THEN ToJson(cache_content) ELSE @,
      !.ldp = IF n >= 2 THEN TextFile(generate_cache_ld_library_path(cache_paths)) ELSE @,
      !.egl = IF n >= 3 THEN EglConfs ELSE @ ]

\* ----------------------------------------------------------- the host
\* The directories of the host that hold libraries.
StdDir == "/usr/lib"
OptDir == "/opt/driverA"
Dirs == { StdDir, OptDir }

GenericName == "libnvidia-glcore.so.1"
TlsName == "libnvidia-tls.so.1"
GlxName == "libGLX_nvidia.so.0"
CudaName == "libcuda.so.1"
FileNames == { GenericName, GlxName, CudaName }

File(name, mtime, size) == [ name |-> name, mtime |-> mtime, size |-> size ]

\* get_ld_paths(): the entries of LD_LIBRARY_PATH, then those of the loader
\* configuration (none on the host of the model), then the standard
\* directories, those that are directories kept.
get_ld_paths(ld_library_path) ==
  SelectSeq(ld_library_path \o << StdDir >>, LAMBDA d : d \in Dirs)

\* os.listdir(path) in resolve_libraries raises OSError for a directory that
\* cannot be read or is gone; nothing between it and the caller of
\* nvidia_main catches the error.
ListdirRaises(paths, unlistable) ==
  \E i \in 1..Len(paths) : paths[i] \in unlistable

\* The host after shutil.copyfile and os.chmod have written the paths
\* of the invocations calls and patchelf has rewritten them: a file of the
\* host that is one of these paths has a new modification time.  Paths are
\* compared as texts.
WrittenHost(h, calls) ==
  LET written == UNION { { ToString(calls[k].dsoPaths[i]) :
                             i \in 1..Len(calls[k].dsoPaths) } :
                         k \in 1..Len(calls) }
  IN [ d \in DOMAIN h |->
         [ i \in 1..Len(h[d]) |->
             IF ToString(Join(d, h[d][i].name)) \in written
             THEN File(h[d][i].name, (h[d][i].mtime % MaxMtime) + 1, h[d][i].size)
             ELSE h[d][i] ] ]

RECURSIVE ScanAll(_, _)
\* The loop of nvidia_main over paths: cache_content.paths.
ScanAll(paths, h) ==
  IF paths = << >> THEN << >>
  ELSE scan_dsos_from_dir(Head(paths), h[Head(paths)]) \o ScanAll(Tail(paths), h)

\* ------------------------------------------------------------------ state
\* More bounds: the processes that run nixglhost, and the changes the host's
\* driver directories go through.
NumProcs == 2
MaxHostChanges == 1

Procs == 1..NumProcs

VARIABLES
  host,         \* the listing of each directory of Dirs
  denied,       \* the directories os.listdir raises on
  hostChanges,  \* how many times the host's directories changed
  sameFs,       \* the temporary directory and the cache share a file system
  fs,           \* the tree at each cache root
  tmp,          \* per process: the tree at <temporary directory>/nix-gl-host
  lock,         \* the holder of the lock on nix-gl-host.lock, or Free
  pc,           \* per process: where it is
  loc,          \* per process: its environment, arguments and local variables
  run,          \* per process: what its run did so far (history)
  last,         \* the last run that returned an environment map (history)
  fn            \* the input and the result of a function applied on its own

vars == <<host, denied, hostChanges, sameFs, fs, tmp, lock, pc, loc, run, last, fn>>

Free == 0

NoEnv == [ unset |-> TRUE ]
NoRun == [ ok |-> FALSE ]

\* The values of LD_LIBRARY_PATH and of --driver-directory a process is
\* started with (the empty list: unset, not given).
Invocations ==
  { [ld |-> << OptDir >>, dd |-> << >>],
    [ld |-> << >>, dd |-> << OptDir >>] }

InitLoc ==
  [ ld |-> << >>, dd |-> << >>, cache_dir |-> CliCacheDir, arg |-> << >>,
    paths |-> << >>, content |-> CacheDirContent(<< >>, CACHE_VERSION),
    i |-> 0, up |-> FALSE, ldp |-> << >>, env |-> NoEnv ]

InitRun ==
  [ cache0 |-> AbsentTree, prev |-> NoRun, branch |-> "none", ncopy |-> 0,
    npatch |-> 0, patches |-> << >>, cache_paths |-> << >>, wrote |-> FALSE, hvScan |-> 0, cacheEnd |-> AbsentTree,
    cause |-> "none", scanHost |-> [ d \in Dirs |-> << >> ] ]

InitHost ==
  [ d \in Dirs |->
      IF d = StdDir
      THEN << File(GenericName, 1, 1), File(GlxName, 1, 1) >>
      ELSE << File(GenericName, 1, 1) >> ]

RECURSIVE CacheAll(_, _, _, _)
\* The loop of nvidia_main over cache_content.paths, from the i-th on.
CacheAll(paths, i, t, cache_dir) ==
  IF i > Len(paths) THEN t
  ELSE CacheAll(paths, i + 1,
                cache_library_path(paths[i], t, "tmp", cache_dir), cache_dir)

\* The tree a rebuild for cache_content makes and promotes.
BuiltTree(cache_content, cache_dir) ==
  generate_cache_metadata(
    CacheAll(cache_content.paths, 1, EmptyTree, cache_dir), cache_content,
    CacheAbsolutePaths(cache_dir, cache_content.paths), 3)

\* The scan and the cache of a run on the first host with no
\* LD_LIBRARY_PATH, at a schema version.
FirstScan == ScanAll(get_ld_paths(<< >>), InitHost)

FirstCache(version) == BuiltTree(CacheDirContent(FirstScan, version), CliCacheDir)

\* The cache roots a first run may find: none, and the cache an earlier run
\* left.
ValidCaches == { AbsentTree, FirstCache(CACHE_VERSION) }

\* The cache roots a first run may find after an upgrade or a damage: none,
\* the cache an earlier version of the program left (the same libraries,
\* an older schema version), and caches whose cache.json is no JSON text or
\* lacks a key.
StaleCaches ==
  { AbsentTree, FirstCache(CACHE_VERSION - 1),
    [FirstCache(CACHE_VERSION) EXCEPT !.json = Garbage],
    [FirstCache(CACHE_VERSION) EXCEPT !.json = [ paths |-> @.paths ]] }

NoFn == [ op |-> "none" ]

InitWith(caches) ==
  /\ host = InitHost
  /\ denied = {}
  /\ hostChanges = 0
  /\ sameFs \in BOOLEAN
  /\ \E c \in caches :
       fs = [ r \in Roots |-> IF r = CliCacheDir THEN c ELSE AbsentTree ]
  /\ tmp = [ p \in Procs |-> AbsentTree ]
  /\ lock = Free
  /\ pc = [ p \in Procs |-> "cli" ]
  /\ loc = [ p \in Procs |-> InitLoc ]
  /\ run = [ p \in Procs |-> InitRun ]
  /\ last = NoRun
  /\ fn = NoFn

Init == InitWith(ValidCaches)

InitHostSpec == InitWith(StaleCaches)

\* ---------------------------------------------------------------- actions
\* A lock that is always granted, as LOCK_SH would be.
FlockShared(l) == TRUE

\* flock(lock, LOCK_EX) is granted when no other open file holds the lock.
FlockGranted(l) == l = Free

\* An exception that leaves the temporary directory behind, as
\* tempfile.mkdtemp() in place of TemporaryDirectory() would.
RaiseLeavingTmp(p, cause) ==
  /\ pc' = [pc EXCEPT ![p] = "failed"]
  /\ tmp' = tmp
  /\ lock' = IF lock = p THEN Free ELSE lock
  /\ run' = [run EXCEPT ![p].cause = cause]

\* An exception that leaves the lock file open, as a bare open() without a
\* with block would.
RaiseHoldingLock(p, cause) ==
  /\ pc' = [pc EXCEPT ![p] = "failed"]
  /\ tmp' = [tmp EXCEPT ![p] = AbsentTree]
  /\ lock' = lock
  /\ run' = [run EXCEPT ![p].cause = cause]

\* An exception leaves both with blocks: the temporary directory is removed,
\* the lock file is closed, and the exception reaches the caller.
Raise(p, cause) ==
  /\ pc' = [pc EXCEPT ![p] = "failed"]
  /\ tmp' = [tmp EXCEPT ![p] = AbsentTree]
  /\ lock' = IF lock = p THEN Free ELSE lock
  /\ run' = [run EXCEPT ![p].cause = cause]

\* nvidia_main up to the with block: paths = get_ld_paths().
NvidiaMain(p, cache_dir, ld, dd, dso_vendor_paths) ==
  /\ loc' = [loc EXCEPT ![p].ld = ld, ![p].dd = dd, ![p].cache_dir = cache_dir,
                        ![p].arg = dso_vendor_paths,
                        ![p].paths = get_ld_paths(ld)]
  /\ pc' = [pc EXCEPT ![p] = "lock"]

\* cli(): the cache directory is made, the directories to scan are the
\* driver directory given, or else the loader's search path, and
\* nvidia_main is called with them.
Cli(p) ==
  /\ pc[p] = "cli"
  /\ fs' = [fs EXCEPT ![CliCacheDir] = IF @.exists THEN @ ELSE EmptyTree]
  /\ \E inv \in Invocations :
       NvidiaMain(p, CliCacheDir, inv.ld, inv.dd,
                  IF inv.dd # << >> THEN inv.dd ELSE get_ld_paths(inv.ld))
  /\ UNCHANGED <<host, denied, hostChanges, sameFs, tmp, lock, run, last, fn>>

\* open(lock_path, "w") and fcntl.flock(lock, LOCK_EX).
Acquire(p) ==
  /\ pc[p] = "lock"
  /\ FlockGranted(lock)
  /\ lock' = p
  /\ run' = [run EXCEPT ![p].cache0 = fs[loc[p].cache_dir], ![p].prev = last]
  /\ pc' = [pc EXCEPT ![p] = "scan"]
  /\ UNCHANGED <<host, denied, hostChanges, sameFs, fs, tmp, loc, last, fn>>

\* The scan of every path, then the test
\* "not is_dso_cache_up_to_date(...) or not os.path.isfile(...)"; when it
\* holds, tempfile.TemporaryDirectory() and os.makedirs(tmp_cache_dir).
Scan(p) ==
  /\ pc[p] = "scan"
  /\ LET root == fs[loc[p].cache_dir]
         cache_content == CacheDirContent(ScanAll(loc[p].paths, host), CACHE_VERSION)
         r == is_dso_cache_up_to_date(cache_content, root.json)
         up == r.val /\ IsFile(root.ldp)
     IN IF ListdirRaises(loc[p].paths, denied)
        THEN /\ Raise(p, "listdir")
             /\ loc' = loc
        ELSE IF r.exc
        THEN /\ Raise(p, "check")
             /\ loc' = [loc EXCEPT ![p].content = cache_content]
        ELSE /\ loc' = [loc EXCEPT ![p].content = cache_content, ![p].up = up,
                                   ![p].i = 1]
             /\ pc' = [pc EXCEPT ![p] = IF up THEN "reuse" ELSE "populate"]
             /\ run' = [run EXCEPT ![p].branch = IF up THEN "reuse" ELSE "rebuild",
                                   ![p].scanHost = host,
                                   ![p].hvScan = hostChanges]
             /\ tmp' = [tmp EXCEPT ![p] = IF up THEN @ ELSE EmptyTree]
             /\ lock' = lock
  /\ UNCHANGED <<host, denied, hostChanges, sameFs, fs, last, fn>>

\* The cache is up to date: nix_gl_ld_library_path = f.read()
Reuse(p) ==
  /\ pc[p] = "reuse"
  /\ loc' = [loc EXCEPT ![p].ldp = fs[loc[p].cache_dir].ldp.text]
  /\ pc' = [pc EXCEPT ![p] = "exit"]
  /\ UNCHANGED <<host, denied, hostChanges, sameFs, fs, tmp, lock, run, last, fn>>

NonEmptyBuckets(lp) == { b \in Buckets : Len(lp[b]) > 0 }

CopyCount(lp) == Len(lp.glx) + Len(lp.cuda) + Len(lp.generic) + Len(lp.egl)

\* One turn of the loop over cache_content.paths: cache_library_path
\* copies and patches the libraries of one LibraryPath.
Populate(p) ==
  /\ pc[p] = "populate"
  /\ loc[p].i <= Len(loc[p].content.paths)
  /\ LET lp == loc[p].content.paths[loc[p].i]
     IN /\ tmp' = [tmp EXCEPT ![p] =
                     cache_library_path(lp, @, "tmp", loc[p].cache_dir)]
        /\ run' = [run EXCEPT ![p].ncopy = @ + CopyCount(lp),
                              ![p].npatch = @ + Cardinality(NonEmptyBuckets(lp)),
                              ![p].patches =
                                 @ \o PatchCalls(lp, TmpCacheDir, loc[p].cache_dir),
                              ![p].cache_paths = Append(@, Sha256Hex(lp.path))]
        /\ host' = WrittenHost(host, PatchCalls(lp, TmpCacheDir, loc[p].cache_dir))
  /\ loc' = [loc EXCEPT ![p].i = @ + 1]
  /\ UNCHANGED <<denied, hostChanges, sameFs, fs, lock, pc, last, fn>>

\* A copy fails, or patchelf exits non-zero and patch_dsos raises.
PopulateFails(p) ==
  /\ pc[p] = "populate"
  /\ loc[p].i <= Len(loc[p].content.paths)
  /\ \E cause \in {"copy", "patch"} : Raise(p, cause)
  /\ UNCHANGED <<host, denied, hostChanges, sameFs, fs, loc, last, fn>>

\* generate_cache_metadata(tmp_cache_dir, cache_content, cache_absolute_paths),
\* then "if os.path.exists(cache_dir)".
Metadata(p) ==
  /\ pc[p] = "populate"
  /\ loc[p].i > Len(loc[p].content.paths)
  /\ LET abs == CacheAbsolutePaths(loc[p].cache_dir, loc[p].content.paths)
     IN /\ tmp' = [tmp EXCEPT ![p] =
                     generate_cache_metadata(@, loc[p].content, abs, 3)]
        /\ loc' = [loc EXCEPT ![p].ldp = generate_cache_ld_library_path(abs)]
  /\ pc' = [pc EXCEPT ![p] = IF fs[loc[p].cache_dir].exists THEN "rmtree" ELSE "move"]
  /\ UNCHANGED <<host, denied, hostChanges, sameFs, fs, lock, run, last, fn>>

\* One of the writes of generate_cache_metadata fails.
MetadataFails(p) ==
  /\ pc[p] = "populate"
  /\ loc[p].i > Len(loc[p].content.paths)
  /\ Raise(p, "write")
  /\ UNCHANGED <<host, denied, hostChanges, sameFs, fs, loc, last, fn>>

RECURSIVE WithoutAll(_, _)
\* The tree without the top-level entries es.
WithoutAll(t, es) ==
  IF es = {} THEN t
  ELSE LET e == CHOOSE x \in es : TRUE
       IN WithoutAll(Without(t, e), es \ {e})

RECURSIVE WithCopies(_, _, _)
\* The tree dst with the top-level entries es of src copied into it.
WithCopies(dst, src, es) ==
  IF es = {} THEN dst
  ELSE LET e == CHOOSE x \in es : TRUE
       IN WithCopies(WithCopy(dst, src, e), src, es \ {e})

\* shutil.rmtree(cache_dir), run to its end.  No other process reads the
\* tree while this one holds the lock, so the states part-way through it
\* show only when the process stops there (Crash).
Rmtree(p) ==
  /\ pc[p] = "rmtree"
  /\ fs' = [fs EXCEPT ![loc[p].cache_dir] = AbsentTree]
  /\ pc' = [pc EXCEPT ![p] = "move"]
  /\ run' = [run EXCEPT ![p].wrote = TRUE]
  /\ UNCHANGED <<host, denied, hostChanges, sameFs, tmp, lock, loc, last, fn>>

\* The directory shutil.move(tmp_cache_dir, os.path.split(cache_dir)[0])
\* moves to: the parent is a directory, so the source keeps its name in it.
MoveDst(cache_dir) == Join(SplitHead(cache_dir), TmpBaseName)

\* shutil.move: it raises when the destination exists; else it renames, or,
\* across file systems, makes the destination and starts copying.
Move(p) ==
  /\ pc[p] = "move"
  /\ LET dst == MoveDst(loc[p].cache_dir)
     IN IF fs[dst].exists
        THEN Raise(p, "move") /\ UNCHANGED fs
        ELSE /\ IF sameFs
                THEN /\ fs' = [fs EXCEPT ![dst] = tmp[p]]
                     /\ tmp' = [tmp EXCEPT ![p] = AbsentTree]
                     /\ pc' = [pc EXCEPT ![p] = "exit"]
                ELSE /\ fs' = [fs EXCEPT ![dst] = EmptyTree]
                     /\ tmp' = tmp
                     /\ pc' = [pc EXCEPT ![p] = "copytree"]
             /\ run' = [run EXCEPT ![p].wrote = TRUE]
             /\ lock' = lock
  /\ UNCHANGED <<host, denied, hostChanges, sameFs, loc, last, fn>>

\* copytree, then rmtree of the source, run to their end.
Copytree(p) ==
  /\ pc[p] = "copytree"
  /\ fs' = [fs EXCEPT ![MoveDst(loc[p].cache_dir)] = tmp[p]]
  /\ tmp' = [tmp EXCEPT ![p] = AbsentTree]
  /\ pc' = [pc EXCEPT ![p] = "exit"]
  /\ UNCHANGED <<host, denied, hostChanges, sameFs, lock, loc, run, last, fn>>

\* The end of both with blocks: the temporary directory is removed and the
\* lock file closed.
Exit(p) ==
  /\ pc[p] = "exit"
  /\ tmp' = [tmp EXCEPT ![p] = AbsentTree]
  /\ lock' = Free
  /\ run' = [run EXCEPT ![p].cacheEnd = fs[loc[p].cache_dir]]
  /\ pc' = [pc EXCEPT ![p] = "env"]
  /\ UNCHANGED <<host, denied, hostChanges, sameFs, fs, loc, last, fn>>

\* new_env with the inherited value overwritten.
NewEnvOverwriting(cache_dir, nix_gl_ld_library_path, ld_library_path) ==
  ("__GLX_VENDOR_LIBRARY_NAME" :> "nvidia")
  @@ ("__EGL_VENDOR_LIBRARY_DIRS" :> Join(cache_dir, "egl-confs"))
  @@ ("LD_LIBRARY_PATH" :> nix_gl_ld_library_path)

\* new_env of nvidia_main.  A search path is the list of its entries, and
\* f"{a}:{b}" of two search paths the concatenation of their lists; the
\* inherited LD_LIBRARY_PATH is the empty list when os.environ.get returns
\* None, when nothing is joined to nix_gl_ld_library_path.
NewEnv(cache_dir, nix_gl_ld_library_path, ld_library_path) ==
  ("__GLX_VENDOR_LIBRARY_NAME" :> "nvidia")
  @@ ("__EGL_VENDOR_LIBRARY_DIRS" :> Join(cache_dir, "egl-confs"))
  @@ ("LD_LIBRARY_PATH" :> IF ld_library_path = << >>
                           THEN nix_gl_ld_library_path
                           ELSE nix_gl_ld_library_path \o ld_library_path)

\* After the lock: the assertion, then the environment map is returned.
Env(p) ==
  /\ pc[p] = "env"
  /\ IF loc[p].ldp = << >>
     THEN /\ pc' = [pc EXCEPT ![p] = "failed"]
          /\ run' = [run EXCEPT ![p].cause = "assert"]
          /\ UNCHANGED <<loc, last>>
     ELSE /\ loc' = [loc EXCEPT ![p].env =
                       NewEnv(loc[p].cache_dir, loc[p].ldp, loc[p].ld)]
          /\ pc' = [pc EXCEPT ![p] = "done"]
          /\ run' = run
          /\ last' = [ ok |-> TRUE, ld |-> loc[p].ld, dd |-> loc[p].dd,
                       cache_dir |-> loc[p].cache_dir,
                       hv |-> run[p].hvScan, cache |-> run[p].cacheEnd,
                       env |-> loc'[p].env ]
  /\ UNCHANGED <<host, denied, hostChanges, sameFs, fs, tmp, lock, fn>>

\* Where a process holds the lock.
SectionPcs == { "scan", "reuse", "populate", "rmtree", "move", "copytree", "exit" }

\* Where a process that stops leaves something behind.
CrashPcs == { "populate", "rmtree", "move", "copytree" }

\* The process is killed during a rebuild or a promotion: the kernel closes
\* its lock file, and what it did under the cache root stays.  rmtree has
\* removed some of the entries by then (the directory itself last), and
\* copytree has copied some.
Crash(p) ==
  /\ pc[p] \in CrashPcs
  /\ pc' = [pc EXCEPT ![p] = "crashed"]
  /\ lock' = IF lock = p THEN Free ELSE lock
  /\ tmp' = [tmp EXCEPT ![p] = AbsentTree]
  /\ CASE pc[p] = "rmtree" ->
            \E es \in SUBSET Entries(fs[loc[p].cache_dir]) :
               fs' = [fs EXCEPT ![loc[p].cache_dir] = WithoutAll(@, es)]
       [] pc[p] = "copytree" ->
            \E es \in SUBSET Entries(tmp[p]) :
               fs' = [fs EXCEPT ![MoveDst(loc[p].cache_dir)] =
                        WithCopies(@, tmp[p], es)]
       [] OTHER -> fs' = fs
  /\ UNCHANGED <<host, denied, hostChanges, sameFs, loc, run, last, fn>>

\* --------------------------------------------------- the host's changes
Replace(listing, i, f) == [listing EXCEPT ![i] = f]

RemoveAt(listing, i) == SubSeq(listing, 1, i - 1) \o SubSeq(listing, i + 1, Len(listing))

\* A driver update changes a file in place, adds one, removes one, or the
\* directory lists its files in another order.  Only the scan reads the
\* host's directories, so a change is taken when a process is about to scan.
HostChange ==
  /\ hostChanges < MaxHostChanges
  /\ \E p \in Procs : pc[p] = "scan"
  /\ hostChanges' = hostChanges + 1
  /\ \E d \in Dirs :
       \/ \E i \in 1..Len(host[d]) :
            /\ host[d][i].mtime < MaxMtime
            /\ host' = [host EXCEPT ![d] =
                         Replace(@, i, File(@[i].name, @[i].mtime + 1, @[i].size))]
       \/ \E i \in 1..Len(host[d]) :
            /\ host[d][i].size < MaxSize
            /\ host' = [host EXCEPT ![d] =
                         Replace(@, i, File(@[i].name, @[i].mtime, @[i].size + 1))]
       \/ \E n \in FileNames :
            /\ \A i \in 1..Len(host[d]) : host[d][i].name # n
            /\ host' = [host EXCEPT ![d] = Append(@, File(n, 1, 1))]
       \/ \E i \in 1..Len(host[d]) :
            host' = [host EXCEPT ![d] = RemoveAt(@, i)]
       \/ \E i \in 1..(Len(host[d]) - 1) :
            host' = [host EXCEPT ![d] =
                       [@ EXCEPT ![i] = host[d][i + 1], ![i + 1] = host[d][i]]]
  /\ UNCHANGED <<denied, sameFs, fs, tmp, lock, pc, loc, run, last, fn>>

Step(p) ==
  \/ Acquire(p)
  \/ Scan(p)
  \/ Reuse(p)
  \/ Populate(p)
  \/ PopulateFails(p)
  \/ Metadata(p)
  \/ MetadataFails(p)
  \/ Rmtree(p)
  \/ Move(p)
  \/ Copytree(p)
  \/ Exit(p)
  \/ Env(p)

\* Concurrent runs on one cache root, any of which may be killed.
Next == \E p \in Procs : Cli(p) \/ Step(p) \/ Crash(p)

Spec == Init /\ [][Next]_vars

\* A directory of the search path becomes unreadable, or is removed, after
\* get_ld_paths kept it and before it is scanned.
DirChange ==
  /\ hostChanges < MaxHostChanges
  /\ \E p \in Procs : pc[p] = "scan"
  /\ hostChanges' = hostChanges + 1
  /\ \E d \in Dirs \ denied : denied' = denied \cup {d}
  /\ UNCHANGED <<host, sameFs, fs, tmp, lock, pc, loc, run, last, fn>>

\* Concurrent runs on a host where a directory stops being listable.
NextDenied == DirChange \/ \E p \in Procs : Cli(p) \/ Step(p)

SpecDenied == Init /\ [][NextDenied]_vars

\* The same runs, every process that can take a step of nvidia_main
\* eventually taking one: a process that is not killed goes on running, and
\* flock wakes a waiting process once the lock is free.
SpecLive == Init /\ [][Next]_vars /\ \A p \in Procs : WF_vars(Step(p))

\* Concurrent runs on a host whose driver directories change, the first of
\* them finding a stale or damaged cache.
NextHost == HostChange \/ \E p \in Procs : Cli(p) \/ Step(p)

SpecHost == InitHostSpec /\ [][NextHost]_vars

\* ------------------------------------------- nvidia_main called on any root
\* nvidia_main called by a program other than cli(), with a cache root of
\* its choice: nothing makes the root beforehand.
Call(p) ==
  /\ pc[p] = "call"
  /\ \E cache_dir \in Roots : \E inv \in Invocations :
       NvidiaMain(p, cache_dir, inv.ld, inv.dd, get_ld_paths(inv.ld))
  /\ UNCHANGED <<host, denied, hostChanges, sameFs, fs, tmp, lock, run, last, fn>>

InitRoots ==
  /\ host = InitHost
  /\ denied = {}
  /\ hostChanges = 0
  /\ sameFs \in BOOLEAN
  /\ fs \in [ Roots -> {AbsentTree, EmptyTree} ]
  /\ tmp = [ p \in Procs |-> AbsentTree ]
  /\ lock = Free
  /\ pc = [ p \in Procs |-> "call" ]
  /\ loc = [ p \in Procs |-> InitLoc ]
  /\ run = [ p \in Procs |-> InitRun ]
  /\ last = NoRun
  /\ fn = NoFn

NextRoots == \E p \in Procs : Call(p) \/ Step(p)

SpecRoots == InitRoots /\ [][NextRoots]_vars

\* ------------------------------------------- the up-to-date check, alone
\* The inputs of is_dso_cache_up_to_date: the snapshot of a scan of one
\* directory, and the content of a cache file.  The directory lists up to
\* two files, in either order, of any time and size.
EqNames == { GenericName, TlsName }

EqFiles ==
  { File(n, m, s) : <<n, m, s>> \in EqNames \X (1..MaxMtime) \X (1..MaxSize) }

EqListings ==
  { << >> } \cup { << f >> : f \in EqFiles }
  \cup { << x[1], x[2] >> : x \in { y \in EqFiles \X EqFiles : y[1].name # y[2].name } }

EqSnapshot(listing, version) ==
  CacheDirContent(scan_dsos_from_dir(StdDir, listing), version)

\* A cache.json whose first library's name is a JSON array.
WithArrayName(j) ==
  IF Len(j.paths) > 0
  THEN [j EXCEPT !.paths[1].generic[1].name = JsonArray]
  ELSE j

\* The cache files: none, no JSON text, the file a run wrote at this or the
\* previous schema version, such a file without its "version" key, and one
\* with an array for a name.
EqCacheFiles ==
  { NoFile, Garbage }
  \cup { ToJson(EqSnapshot(l, v)) :
           <<l, v>> \in EqListings \X { CACHE_VERSION - 1, CACHE_VERSION } }
  \cup { [ paths |-> ToJson(EqSnapshot(l, CACHE_VERSION)).paths ] : l \in EqListings }
  \cup { WithArrayName(ToJson(EqSnapshot(l, CACHE_VERSION))) : l \in EqListings }

InitEq ==
  /\ host = InitHost
  /\ denied = {}
  /\ hostChanges = 0
  /\ sameFs = TRUE
  /\ fs = [ r \in Roots |-> AbsentTree ]
  /\ tmp = [ p \in Procs |-> AbsentTree ]
  /\ lock = Free
  /\ pc = [ p \in Procs |-> "none" ]
  /\ loc = [ p \in Procs |-> InitLoc ]
  /\ run = [ p \in Procs |-> InitRun ]
  /\ last = NoRun
  /\ \E l \in EqListings : \E f \in EqCacheFiles :
       fn = [ op |-> "input", dsos |-> EqSnapshot(l, CACHE_VERSION), cache_file |-> f ]

\* is_dso_cache_up_to_date(dsos, cache_file_path) is called.
UpToDate ==
  /\ fn.op = "input"
  /\ fn' = [ op |-> "is_dso_cache_up_to_date", dsos |-> fn.dsos,
             cache_file |-> fn.cache_file,
             result |-> is_dso_cache_up_to_date(fn.dsos, fn.cache_file) ]
  /\ UNCHANGED <<host, denied, hostChanges, sameFs, fs, tmp, lock, pc, loc, run, last>>

NextEq == UpToDate

SpecEq == InitEq /\ [][NextEq]_vars

\* ------------------------------------------------ the scan of a directory, alone
\* The inputs of scan_dsos_from_dir: a directory, one of them with a name a
\* generic pattern is found in, and its listing of up to two regular
\* files, driver libraries or not.
StemDir == "/opt/libnvidia-glcore.so.d"

ScanDirs == { StdDir, OptDir, StemDir }

EglName == "libEGL_nvidia.so.0"
OtherName == "README"

ScanNames == { GenericName, GlxName, CudaName, EglName, OtherName }

ScanListings ==
  { << >> } \cup { << File(n, 1, 1) >> : n \in ScanNames }
  \cup { << File(x[1], 1, 1), File(x[2], 1, 1) >> :
           x \in { y \in ScanNames \X ScanNames : y[1] # y[2] } }

InitScan ==
  /\ host = InitHost
  /\ denied = {}
  /\ hostChanges = 0
  /\ sameFs = TRUE
  /\ fs = [ r \in Roots |-> AbsentTree ]
  /\ tmp = [ p \in Procs |-> AbsentTree ]
  /\ lock = Free
  /\ pc = [ p \in Procs |-> "none" ]
  /\ loc = [ p \in Procs |-> InitLoc ]
  /\ run = [ p \in Procs |-> InitRun ]
  /\ last = NoRun
  /\ \E d \in ScanDirs : \E l \in ScanListings :
       fn = [ op |-> "scan input", path |-> d, listing |-> l ]

\* scan_dsos_from_dir(path) is called.
ScanDir ==
  /\ fn.op = "scan input"
  /\ fn' = [ op |-> "scan_dsos_from_dir", path |-> fn.path, listing |-> fn.listing,
             result |-> scan_dsos_from_dir(fn.path, fn.listing) ]
  /\ UNCHANGED <<host, denied, hostChanges, sameFs, fs, tmp, lock, pc, loc, run, last>>

NextScan == ScanDir

SpecScan == InitScan /\ [][NextScan]_vars

\* ------------------------------------------------ what a run prints
\* log_info(string): print(f"[+] {string}"), which writes to standard
\* output, when DEBUG is in the environment.  The lines written to
\* standard output, a line being <<prefix, text>>.
log_info(debug, string) ==
  IF debug THEN << <<"[+] ", string>> >> ELSE << >>

\* print(nix_gl_ld_library_path)
PrintLine(nix_gl_ld_library_path) == << <<"", nix_gl_ld_library_path>> >>

\* The standard output of nvidia_main, from its first line to its return:
\* the messages of the locked section on the branch taken, then those of
\* the environment map, with the print of the search path among them.
NvidiaMainStdout(debug, print_ld_library_path, up, nix_gl_ld_library_path) ==
  log_info(debug, "Nvidia routine begins")
  \o log_info(debug, "Searching for the host DSOs")
  \o log_info(debug, "Acquiring the cache lock")
  \o log_info(debug, "Cache lock acquired")
  \o log_info(debug, "Checking if the cache is up to date")
  \o (IF up
      THEN log_info(debug, "The cache is up to date, re-using it.")
      ELSE log_info(debug, "The cache is not up to date, regenerating it")
           \o log_info(debug, "Caching LD_LIBRARY_PATH")
           \o log_info(debug, "Mv"))
  \o log_info(debug, "Cache lock released")
  \o log_info(debug, "Injecting LD_LIBRARY_PATH")
  \o log_info(debug, "__GLX_VENDOR_LIBRARY_NAME = nvidia")
  \o log_info(debug, "__EGL_VENDOR_LIBRARY_DIRS")
  \o (IF print_ld_library_path THEN PrintLine(nix_gl_ld_library_path) ELSE << >>)
  \o log_info(debug, "LD_LIBRARY_PATH")

\* The search paths a run may print: those of the caches of one or two
\* driver directories under each cache root.
PrintedPaths ==
  { generate_cache_ld_library_path(CacheAbsolutePaths(r, ps)) :
      <<r, ps>> \in Roots \X { << [path |-> StdDir] >>, << [path |-> OptDir] >>,
                              << [path |-> StdDir], [path |-> OptDir] >>,
                              << [path |-> OptDir], [path |-> StdDir] >> } }

InitPrint ==
  /\ host = InitHost
  /\ denied = {}
  /\ hostChanges = 0
  /\ sameFs = TRUE
  /\ fs = [ r \in Roots |-> AbsentTree ]
  /\ tmp = [ p \in Procs |-> AbsentTree ]
  /\ lock = Free
  /\ pc = [ p \in Procs |-> "none" ]
  /\ loc = [ p \in Procs |-> InitLoc ]
  /\ run = [ p \in Procs |-> InitRun ]
  /\ last = NoRun
  /\ \E debug \in BOOLEAN : \E print \in BOOLEAN : \E up \in BOOLEAN :
       \E nix \in PrintedPaths :
          fn = [ op |-> "print input", debug |-> debug,
                 print_ld_library_path |-> print, up |-> up, nix |-> nix ]

\* nvidia_main runs to its return.
RunToReturn ==
  /\ fn.op = "print input"
  /\ fn' = [ op |-> "nvidia_main", debug |-> fn.debug,
             print_ld_library_path |-> fn.print_ld_library_path,
             up |-> fn.up, nix |-> fn.nix,
             stdout |-> NvidiaMainStdout(fn.debug, fn.print_ld_library_path,
                                         fn.up, fn.nix) ]
  /\ UNCHANGED <<host, denied, hostChanges, sameFs, fs, tmp, lock, pc, loc, run, last>>

NextPrint == RunToReturn

SpecPrint == InitPrint /\ [][NextPrint]_vars

\* ------------------------------------------------ __eq__ and __hash__, alone
\* The LibraryPaths of the scans of one directory, its files listed in
\* either order, and those with the first generic record listed twice.
HashPaths ==
  LET scanned == UNION { { scan_dsos_from_dir(StdDir, l)[i] :
                             i \in 1..Len(scan_dsos_from_dir(StdDir, l)) } :
                         l \in EqListings }
  IN scanned \cup { [ lp EXCEPT !.generic = << lp.generic[1] >> \o @ ] : lp \in scanned }

InitHash ==
  /\ host = InitHost
  /\ denied = {}
  /\ hostChanges = 0
  /\ sameFs = TRUE
  /\ fs = [ r \in Roots |-> AbsentTree ]
  /\ tmp = [ p \in Procs |-> AbsentTree ]
  /\ lock = Free
  /\ pc = [ p \in Procs |-> "none" ]
  /\ loc = [ p \in Procs |-> InitLoc ]
  /\ run = [ p \in Procs |-> InitRun ]
  /\ last = NoRun
  /\ \E a \in HashPaths : \E b \in HashPaths :
       fn = [ op |-> "hash input", a |-> a, b |-> b ]

\* a == b, hash(a) and hash(b) are evaluated for two LibraryPaths, and for
\* their first generic records.
EqAndHash ==
  /\ fn.op = "hash input"
  /\ fn' = [ op |-> "__eq__ __hash__", a |-> fn.a, b |-> fn.b,
             eq |-> LibraryPathEq(fn.a, fn.b),
             hash_a |-> LibraryPathHash(fn.a),
             hash_b |-> LibraryPathHash(fn.b),
             lib_eq |-> ResolvedLibEq(fn.a.generic[1], fn.b.generic[1]),
             lib_hash_a |-> ResolvedLibHash(fn.a.generic[1]),
             lib_hash_b |-> ResolvedLibHash(fn.b.generic[1]) ]
  /\ UNCHANGED <<host, denied, hostChanges, sameFs, fs, tmp, lock, pc, loc, run, last>>

NextHash == EqAndHash

SpecHash == InitHash /\ [][NextHash]_vars

\* ------------------------------------------------ the loader configuration
\* The depth of calls at which the interpreter raises RecursionError.
RecursionLimit == 3

\* The loader configuration files: /etc/ld.so.conf and one file an include
\* glob can match.
ConfFiles == { "/etc/ld.so.conf", "/etc/ld.so.conf.d/a.conf" }

\* The contents of a configuration file: up to two lines, each a
\* directory, a comment or a blank line, or an include directive, given
\* with the files glob(dirglob) returns for it.
ConfContents ==
  LET lines == { [ kind |-> "path", text |-> StdDir, files |-> << >> ],
                 [ kind |-> "path", text |-> OptDir, files |-> << >> ],
                 [ kind |-> "skip", text |-> "# comment", files |-> << >> ],
                 [ kind |-> "include", text |-> "include *.conf", files |-> << >> ] }
                \cup { [ kind |-> "include", text |-> "include", files |-> << f >> ] :
                         f \in ConfFiles }
  IN { << >> } \cup { << l >> : l \in lines }
     \cup { << x[1], x[2] >> : x \in lines \X lines }

RECURSIVE parse_ld_conf_file(_, _, _)
RECURSIVE ParseLines(_, _, _)
RECURSIVE ParseFiles(_, _, _)
\* parse_ld_conf_file(fn), called at a depth of calls, conf giving the
\* content of each file: the paths, or RecursionError.
parse_ld_conf_file(file, conf, depth) ==
  IF depth > RecursionLimit THEN Raises ELSE ParseLines(conf[file], conf, depth)

\* The loop over the lines of a file: blank lines and comments are
\* skipped, an include extends paths with the parse of each file of the
\* glob, any other line is appended.
ParseLines(lines, conf, depth) ==
  IF lines = << >> THEN Returns(<< >>)
  ELSE LET l == Head(lines)
           first == CASE l.kind = "path" -> Returns(<< l.text >>)
                      [] l.kind = "include" -> ParseFiles(l.files, conf, depth + 1)
                      [] OTHER -> Returns(<< >>)
       IN IF first.exc THEN Raises
          ELSE LET rest == ParseLines(Tail(lines), conf, depth)
               IN IF rest.exc THEN Raises ELSE Returns(first.val \o rest.val)

\* "for sub_fn in glob(dirglob): paths.extend(parse_ld_conf_file(sub_fn))"
ParseFiles(files, conf, depth) ==
  IF files = << >> THEN Returns(<< >>)
  ELSE LET first == parse_ld_conf_file(Head(files), conf, depth)
       IN IF first.exc THEN Raises
          ELSE LET rest == ParseFiles(Tail(files), conf, depth)
               IN IF rest.exc THEN Raises ELSE Returns(first.val \o rest.val)

\* get_ld_paths() on a host with these configuration files: the entries of
\* LD_LIBRARY_PATH, those of /etc/ld.so.conf, the standard directories,
\* those that are directories kept.
GetLdPathsWith(conf, ld_library_path) ==
  LET parsed == parse_ld_conf_file("/etc/ld.so.conf", conf, 1)
  IN IF parsed.exc THEN Raises
     ELSE Returns(SelectSeq(ld_library_path \o parsed.val \o << StdDir >>,
                            LAMBDA d : d \in Dirs))

InitConf ==
  /\ host = InitHost
  /\ denied = {}
  /\ hostChanges = 0
  /\ sameFs = TRUE
  /\ fs = [ r \in Roots |-> AbsentTree ]
  /\ tmp = [ p \in Procs |-> AbsentTree ]
  /\ lock = Free
  /\ pc = [ p \in Procs |-> "none" ]
  /\ loc = [ p \in Procs |-> InitLoc ]
  /\ run = [ p \in Procs |-> InitRun ]
  /\ last = NoRun
  /\ \E conf \in [ ConfFiles -> ConfContents ] :
       fn = [ op |-> "conf input", conf |-> conf ]

\* get_ld_paths() is called, LD_LIBRARY_PATH unset.
GetLdPaths ==
  /\ fn.op = "conf input"
  /\ fn' = [ op |-> "get_ld_paths", conf |-> fn.conf,
             result |-> GetLdPathsWith(fn.conf, << >>) ]
  /\ UNCHANGED <<host, denied, hostChanges, sameFs, fs, tmp, lock, pc, loc, run, last>>

NextConf == GetLdPaths

SpecConf == InitConf /\ [][NextConf]_vars

\* ------------------------------------------------------------------ claims
\* A complete cache: cache.json parses, and the tree is the one a rebuild
\* for the snapshot in cache.json makes (ld_library_path, egl-confs and
\* every hashed subdirectory with its copies).
IsCompleteCache(t, cache_dir) ==
  /\ t.exists
  /\ FromJsonOk(t.json)
  /\ t = BuiltTree(FromJson(t.json), cache_dir)

\* C1: at most one process at a time is between acquiring and releasing the
\* lock on nix-gl-host.lock.
C1_MutualExclusion ==
  \A p \in Procs : \A q \in Procs \ {p} :
     ~ (pc[p] \in SectionPcs /\ pc[q] \in SectionPcs)

\* One process is in the locked section while another waits for the lock.
C1_Witness ==
  \E p \in Procs : \E q \in Procs \ {p} :
     pc[p] \in {"populate", "rmtree", "move", "reuse"} /\ pc[q] = "lock"

\* C2: a process that finds the cache up to date and reads the cached
\* search-path file reads it from a complete cache, whatever other
\* processes did before, a writer that stopped part-way included.
C2_ReaderSeesCompleteCache ==
  \A p \in Procs :
     pc[p] = "reuse" => IsCompleteCache(fs[loc[p].cache_dir], loc[p].cache_dir)

\* C3: when a step of the rebuild before promotion fails, the run has
\* written nothing under the cache root and the failure writes nothing: a
\* cache root that existed when the run took the lock is as it was then, and
\* one that did not holds no file (another process's cli() may have made
\* the empty directory meanwhile); the temporary directory is discarded, the
\* lock is released, the error reaches the caller and no environment map is
\* returned.
C3_FailedRebuildLeavesCache ==
  [][ \A p \in Procs :
        (pc[p] = "populate" /\ pc'[p] = "failed")
        => /\ fs' = fs
           /\ ~ run'[p].wrote
           /\ IF run[p].cache0.exists
              THEN fs'[loc[p].cache_dir] = run[p].cache0
              ELSE fs'[loc[p].cache_dir] \in {AbsentTree, EmptyTree}
           /\ tmp'[p] = AbsentTree
           /\ lock' = Free
           /\ run'[p].cause \in {"copy", "patch", "write"}
           /\ loc'[p].env = NoEnv ]_vars

\* A rebuild has failed before promotion where a complete cache existed.
C3_Witness ==
  \E p \in Procs :
     /\ pc[p] = "failed"
     /\ run[p].cause \in {"copy", "patch", "write"}
     /\ IsCompleteCache(run[p].cache0, loc[p].cache_dir)
     /\ fs[loc[p].cache_dir] = run[p].cache0

\* C4: promotion is atomic: a cache root that holds a complete cache holds
\* a complete cache (the previous one or the new one) in every later state.
C4_AtomicPromotion ==
  [][ \A r \in Roots :
        IsCompleteCache(fs[r], r) => IsCompleteCache(fs'[r], r) ]_vars

\* C9: the directories scanned are the search-path list passed to
\* nvidia_main (dso_vendor_paths).
C9_ScansSuppliedPaths ==
  \A p \in Procs : pc[p] # "cli" => loc[p].paths = loc[p].arg

\* The run of p follows, with the same environment and arguments and on an
\* unchanged file system, a run that returned an environment map: the host
\* did not change between the two scans, and p found the cache root as
\* that run left it.
RunsTwice(p) ==
  /\ run[p].prev.ok
  /\ run[p].prev.ld = loc[p].ld
  /\ run[p].prev.dd = loc[p].dd
  /\ run[p].prev.cache_dir = loc[p].cache_dir
  /\ run[p].prev.hv = run[p].hvScan
  /\ run[p].prev.cache = run[p].cache0

RecordsOf(c) ==
  UNION { UNION { { <<c.paths[i].path, b, c.paths[i][b][k].name,
                      c.paths[i][b][k].last_modification, c.paths[i][b][k].size>>
                    : k \in 1..Len(c.paths[i][b]) }
                  : b \in Buckets }
          : i \in 1..Len(c.paths) }

PatternsOf(b) ==
  CASE b = "glx" -> NVIDIA_GLX_DSO_PATTERNS
    [] b = "cuda" -> NVIDIA_CUDA_DSO_PATTERNS
    [] b = "egl" -> NVIDIA_EGL_DSO_PATTERNS
    [] OTHER -> NVIDIA_DSO_PATTERNS

\* The classified driver files of the scanned directories of a host: the
\* files of the directories that hold a generic library, by the category
\* their name matches.
HostRecords(paths, h) ==
  UNION { UNION { { <<paths[i], b, h[paths[i]][k].name, h[paths[i]][k].mtime,
                      h[paths[i]][k].size>>
                    : k \in { k \in 1..Len(h[paths[i]]) :
                                is_dso_matching_pattern(PatternsOf(b),
                                   AbsFilePath(paths[i], h[paths[i]][k].name)) } }
                  : b \in Buckets }
          : i \in { i \in 1..Len(paths) :
                      \E k \in 1..Len(h[paths[i]]) :
                         is_dso_matching_pattern(NVIDIA_DSO_PATTERNS,
                            AbsFilePath(paths[i], h[paths[i]][k].name)) } }

\* C6: once the size or the modification time of a classified driver file
\* changed, or a classified driver file was added or removed, the
\* up-to-date check is false: the check is true only when the records of
\* cache.json are the classified driver files of the host as scanned.
C6_ChangeIsStale ==
  \A p \in Procs :
     pc[p] = "reuse"
     => RecordsOf(FromJson(fs[loc[p].cache_dir].json))
          = HostRecords(loc[p].paths, run[p].scanHost)

\* A run finds the cache an earlier run populated, scans a host that changed
\* since, and rebuilds.
C6_Witness ==
  \E p \in Procs :
     /\ run[p].prev.ok
     /\ run[p].prev.ld = loc[p].ld
     /\ run[p].prev.cache = run[p].cache0
     /\ run[p].prev.hv # run[p].hvScan
     /\ pc[p] = "populate"
     /\ RecordsOf(FromJson(run[p].cache0.json))
          # HostRecords(loc[p].paths, run[p].scanHost)

\* cache.json is unparsable, lacks a key, or carries another schema version.
Corrupt(j) ==
  IsFile(j) /\ (~ FromJsonOk(j) \/ j.version # CACHE_VERSION)

\* C8: a run that finds such a cache.json takes it for stale and rebuilds;
\* no error of the stored file reaches the caller, and after the rebuild the
\* cache root holds a complete cache of the current version for the scan.
C8_CorruptCacheRebuilt ==
  \A p \in Procs :
     (pc[p] \notin {"cli", "lock", "scan"} /\ Corrupt(run[p].cache0.json))
     => /\ run[p].cause # "check"
        /\ run[p].branch = "rebuild"
        /\ pc[p] \in {"env", "done"}
           => /\ IsCompleteCache(run[p].cacheEnd, loc[p].cache_dir)
              /\ run[p].cacheEnd.json = ToJson(loc[p].content)
              /\ run[p].cacheEnd.json.version = CACHE_VERSION

\* A run that found an older schema version with the libraries of its own
\* scan has rebuilt and returned.
C8_Witness ==
  \E p \in Procs :
     /\ pc[p] = "done"
     /\ FromJsonOk(run[p].cache0.json)
     /\ run[p].cache0.json.version # CACHE_VERSION
     /\ run[p].cache0.json.paths = run[p].cacheEnd.json.paths
     /\ run[p].branch = "rebuild"

\* A run that found a cache.json that does not parse has rebuilt and
\* returned.
C8_WitnessUnparsable ==
  \E p \in Procs :
     pc[p] = "done" /\ IsFile(run[p].cache0.json) /\ ~ FromJsonOk(run[p].cache0.json)

\* The five fields of the records of a list, as a set.
RecordSet(libs) == { ResolvedLibEqKey(libs[i]) : i \in 1..Len(libs) }

\* The LibrarySets of a snapshot: the path and, per bucket, the set of
\* records.
LibrarySets(c) ==
  { [ path |-> c.paths[i].path, glx |-> RecordSet(c.paths[i].glx),
      cuda |-> RecordSet(c.paths[i].cuda), generic |-> RecordSet(c.paths[i].generic),
      egl |-> RecordSet(c.paths[i].egl) ] : i \in 1..Len(c.paths) }

\* C7: is_dso_cache_up_to_date returns true when the file exists, parses,
\* has the schema version of the fresh snapshot and holds the same set of
\* LibrarySets; it returns false in every other case, and never raises.
C7_UpToDateIff ==
  fn.op = "is_dso_cache_up_to_date"
  => fn.result = Returns(/\ IsFile(fn.cache_file)
                         /\ FromJsonOk(fn.cache_file)
                         /\ fn.cache_file.version = fn.dsos.version
                         /\ LibrarySets(FromJson(fn.cache_file)) = LibrarySets(fn.dsos))

\* C10: after a rebuild, the cache root given holds the cache of the scan:
\* cache.json is the serialization of the snapshot, ld_library_path the
\* search path the rebuild returns, with egl-confs and the hashed
\* directories; the up-to-date check on it is true.
C10_RebuildFillsRoot ==
  \A p \in Procs :
     (pc[p] = "exit" /\ run[p].branch = "rebuild")
     => LET root == fs[loc[p].cache_dir]
        IN /\ root = BuiltTree(loc[p].content, loc[p].cache_dir)
           /\ root.json = ToJson(loc[p].content)
           /\ root.ldp = TextFile(loc[p].ldp)
           /\ is_dso_cache_up_to_date(loc[p].content, root.json) = Returns(TRUE)

\* C11: a process that leaves the locked section, on success, on a failure
\* of the patch tool or on any other exception, leaves the lock free; a
\* waiting process goes on only by taking the free lock; and, every holder
\* leaving the section in the end, every waiting process acquires the lock
\* (no process waits for ever, and the only way out of the wait is to take
\* the lock).
C11_LockReleased ==
  /\ [][ \A p \in Procs :
           /\ (pc[p] \in SectionPcs /\ pc'[p] \notin SectionPcs) => lock' = Free
           /\ (pc[p] = "lock" /\ pc'[p] # "lock")
              => (lock = Free /\ lock' = p /\ pc'[p] = "scan") ]_vars
  /\ \A p \in Procs : []<>(pc[p] # "lock")

\* A process holds the lock after the patch tool failed in another one.
C11_Witness ==
  \E p \in Procs : \E q \in Procs \ {p} :
     /\ pc[q] = "failed" /\ run[q].cause = "patch"
     /\ pc[p] = "scan" /\ lock = p

\* C12: in every run that leaves the locked section without error, by
\* reuse or by rebuild, whatever the scan found, the search path is not
\* empty: the assertion holds and an environment map is returned.
C12_AssertionNeverFails ==
  \A p \in Procs :
     /\ pc[p] = "env" => loc[p].ldp # << >>
     /\ run[p].cause # "assert"

\* C13: a directory that cannot be listed gives an empty result, the other
\* directories are scanned, and no error leaves nvidia_main for it.
C13_UnlistableSkipped ==
  \A p \in Procs :
     /\ run[p].cause # "listdir"
     /\ (pc[p] \in {"reuse", "populate"} /\ ListdirRaises(loc[p].paths, denied))
        => loc[p].content.paths
             = ScanAll(SelectSeq(loc[p].paths, LAMBDA d : d \notin denied),
                       run[p].scanHost)

\* C14: the environment map returned has three entries:
\* __GLX_VENDOR_LIBRARY_NAME is "nvidia", __EGL_VENDOR_LIBRARY_DIRS is
\* <cache root>/egl-confs, and LD_LIBRARY_PATH is the cache's search path,
\* followed, when a LD_LIBRARY_PATH is inherited, by the inherited entries.
C14_EnvironmentMap ==
  \A p \in Procs :
     pc[p] = "done"
     => LET env == loc[p].env
        IN /\ DOMAIN env = { "__GLX_VENDOR_LIBRARY_NAME",
                             "__EGL_VENDOR_LIBRARY_DIRS", "LD_LIBRARY_PATH" }
           /\ env["__GLX_VENDOR_LIBRARY_NAME"] = "nvidia"
           /\ env["__EGL_VENDOR_LIBRARY_DIRS"] = <<loc[p].cache_dir, "egl-confs">>
           /\ Len(env["LD_LIBRARY_PATH"]) = Len(loc[p].ldp) + Len(loc[p].ld)
           /\ SubSeq(env["LD_LIBRARY_PATH"], 1, Len(loc[p].ldp)) = loc[p].ldp
           /\ SubSeq(env["LD_LIBRARY_PATH"], Len(loc[p].ldp) + 1,
                     Len(env["LD_LIBRARY_PATH"])) = loc[p].ld

\* A run with an inherited LD_LIBRARY_PATH has returned its map.
C14_Witness ==
  \E p \in Procs : pc[p] = "done" /\ loc[p].ld # << >> /\ loc[p].env # NoEnv

\* The files of a listing whose name matches a pattern of a bucket, as the
\* records the scan makes of them.
NamedIn(b, path, listing) ==
  LET sel == SelectSeq(listing, LAMBDA f : Stems(f.name) \cap PatternsOf(b) # {})
  IN [ i \in 1..Len(sel) |->
         [ name |-> sel[i].name, dirpath |-> path,
           fullpath |-> <<path, sel[i].name>>,
           last_modification |-> sel[i].mtime, size |-> sel[i].size ] ]

\* C15: scan_dsos_from_dir returns no LibrarySet for a directory where no
\* file name matches a generic pattern; else each of the four buckets holds
\* exactly the files of the directory whose name matches a pattern of that
\* category.
C15_ClassificationGate ==
  fn.op = "scan_dsos_from_dir"
  => IF Len(NamedIn("generic", fn.path, fn.listing)) = 0
     THEN fn.result = << >>
     ELSE /\ Len(fn.result) = 1
          /\ \A b \in Buckets : fn.result[1][b] = NamedIn(b, fn.path, fn.listing)
          /\ fn.result[1].path = fn.path

\* C16: in print-only mode, with or without verbose logging, the standard
\* output of the run is the library search path alone.
C16_PrintOnlyOutput ==
  (fn.op = "nvidia_main" /\ fn.print_ld_library_path)
  => fn.stdout = << <<"", fn.nix>> >>

\* C17: the up-to-date check is true for a stored snapshot of the version
\* of the fresh one that holds the same LibrarySets, whatever the order of
\* the LibrarySets and of the records in their buckets.
C17_OrderIgnored ==
  ( /\ fn.op = "is_dso_cache_up_to_date"
    /\ IsFile(fn.cache_file)
    /\ FromJsonOk(fn.cache_file)
    /\ fn.cache_file.version = fn.dsos.version
    /\ \A i \in 1..Len(FromJson(fn.cache_file).paths) :
          LibraryPathHashable(FromJson(fn.cache_file).paths[i])
    /\ LibrarySets(FromJson(fn.cache_file)) = LibrarySets(fn.dsos) )
  => fn.result = Returns(TRUE)

\* C18: two LibraryRecords that compare equal have equal hashes, and so
\* have two LibrarySets that compare equal, whatever the order and the
\* repetitions of the records in their buckets.
C18_EqImpliesHash ==
  fn.op = "__eq__ __hash__"
  => /\ fn.lib_eq => fn.lib_hash_a = fn.lib_hash_b
     /\ fn.eq => fn.hash_a = fn.hash_b

\* C19: while a rebuild fills its temporary directory, patchelf has been
\* invoked once for each non-empty bucket of each LibrarySet handled so
\* far and for nothing else; the invocation for a bucket has the runpath
\* <final cache root>/<hash>/lib and, as files, the copies the temporary
\* tree holds in the category directory of the bucket.
C19_PatchOncePerBucket ==
  \A p \in Procs :
     pc[p] = "populate"
     => LET done == SubSeq(loc[p].content.paths, 1, loc[p].i - 1)
            calls == run[p].patches
            slots == { s \in (1..Len(done)) \X Buckets : Len(done[s[1]][s[2]]) > 0 }
            hash(s) == Sha256Hex(done[s[1]].path)
            dest(s) == Join(Join(TmpCacheDir, hash(s)), CategoryDir(s[2]))
            of(s) == { k \in 1..Len(calls) :
                         \A i \in 1..Len(calls[k].dsoPaths) :
                            calls[k].dsoPaths[i][1] = dest(s) }
            copies(s) == UNION { { Join(dest(s), n) : n \in d[CategoryDir(s[2])] } :
                                 d \in { e \in tmp[p].dirs : e.name = hash(s) } }
        IN /\ Len(calls) = Cardinality(slots)
           /\ Len(calls) = run[p].npatch
           /\ \A k \in 1..Len(calls) : Len(calls[k].dsoPaths) > 0
           /\ \A s \in slots :
                 /\ Cardinality(of(s)) = 1
                 /\ \A k \in of(s) :
                       /\ calls[k].rpath = Join(Join(loc[p].cache_dir, hash(s)), "lib")
                       /\ { calls[k].dsoPaths[i] : i \in 1..Len(calls[k].dsoPaths) }
                            = copies(s)
                       /\ copies(s) # {}

\* A rebuild has handled every LibrarySet, one of them with an empty
\* bucket, and has invoked patchelf for two buckets at least.
C19_Witness ==
  \E p \in Procs :
     /\ pc[p] = "populate"
     /\ loc[p].i > Len(loc[p].content.paths)
     /\ Len(run[p].patches) >= 2
     /\ \E j \in 1..Len(loc[p].content.paths) : \E b \in Buckets :
           Len(loc[p].content.paths[j][b]) = 0

\* C20: when a rebuild has promoted its tree, the search path it returns
\* is the text of ld_library_path at the cache root and lists, for each
\* LibrarySet of the scan in order, <cache root>/<hash>/glx, .../cuda and
\* .../egl: each entry is under the cache root given, names a category
\* directory of a hashed directory the cache root holds, and is no lib
\* directory.
C20_SearchPath ==
  \A p \in Procs :
     (pc[p] = "exit" /\ run[p].branch = "rebuild")
     => LET ldp == loc[p].ldp
            paths == loc[p].content.paths
            root == fs[loc[p].cache_dir]
            hashed(j) == Join(loc[p].cache_dir, Sha256Hex(paths[j].path))
        IN /\ Len(ldp) = 3 * Len(paths)
           /\ \A j \in 1..Len(paths) :
                 /\ ldp[3 * j - 2] = Join(hashed(j), "glx")
                 /\ ldp[3 * j - 1] = Join(hashed(j), "cuda")
                 /\ ldp[3 * j] = Join(hashed(j), "egl")
           /\ \A k \in 1..Len(ldp) :
                 /\ ldp[k][1][1] = loc[p].cache_dir
                 /\ ldp[k][1][1] # TmpCacheDir
                 /\ ldp[k][2] # "lib"
                 /\ \E d \in root.dirs : d.name = ldp[k][1][2]
           /\ root.ldp = TextFile(ldp)

\* C21: no step of a run changes a file of the host's driver directories
\* (the host changes only when something other than the program changes
\* it), and every path the run copies to, makes writable and hands to
\* patchelf lies under the temporary directory.
C21_HostNeverMutated ==
  [][ /\ hostChanges' = hostChanges => host' = host
      /\ \A p \in Procs :
            \A k \in 1..Len(run'[p].patches) :
               \A i \in 1..Len(run'[p].patches[k].dsoPaths) :
                  run'[p].patches[k].dsoPaths[i][1][1][1] = TmpCacheDir ]_vars

\* A rebuild that copied and patched libraries has promoted its tree, and
\* the host is as the scan found it.
C21_Witness ==
  \E p \in Procs :
     /\ pc[p] = "exit"
     /\ run[p].branch = "rebuild"
     /\ Len(run[p].patches) > 0
     /\ host = run[p].scanHost

\* C22: when the cache file holds what to_json gives for the snapshot
\* checked, from_json reads it, what it reads has the version of the
\* snapshot and, for every LibrarySet, the path and the records (all five
\* fields) of each bucket in the same order, it compares equal to the
\* snapshot, and the up-to-date check returns true.
C22_RoundTrip ==
  (fn.op = "is_dso_cache_up_to_date" /\ fn.cache_file = ToJson(fn.dsos))
  => /\ FromJsonOk(fn.cache_file)
     /\ LET back == FromJson(fn.cache_file)
        IN /\ back.version = fn.dsos.version
           /\ Len(back.paths) = Len(fn.dsos.paths)
           /\ \A i \in 1..Len(back.paths) :
                 /\ back.paths[i].path = fn.dsos.paths[i].path
                 /\ \A b \in Buckets :
                       /\ Len(back.paths[i][b]) = Len(fn.dsos.paths[i][b])
                       /\ \A k \in 1..Len(back.paths[i][b]) :
                             \A f \in ResolvedLibKeys :
                                back.paths[i][b][k][f] = fn.dsos.paths[i][b][k][f]
           /\ CacheDirContentEq(fn.dsos, back) = Returns(TRUE)
     /\ fn.result = Returns(TRUE)

\* The check has been made against the file written for the snapshot, which
\* holds two records, one with a size other than its modification time.
C22_Witness ==
  /\ fn.op = "is_dso_cache_up_to_date"
  /\ fn.cache_file = ToJson(fn.dsos)
  /\ Len(fn.dsos.paths) = 1
  /\ Len(fn.dsos.paths[1].generic) = 2
  /\ fn.dsos.paths[1].generic[1].size # fn.dsos.paths[1].generic[1].last_modification

C24_ReturnsList ==
  fn.op = "get_ld_paths" => ~ fn.result.exc

====
